---------------------------- MODULE Spec2Model ----------------------------
(***************************************************************************)
(* Model of gui_scraper_v2.py: scrape_dynamic_content, the two-pass        *)
(* extraction of records from a parsed HTML tree (walker over the primary  *)
(* elements, then recovery of orphan text); process_single_url around it   *)
(* (fetch, parse, extract, save); and the ScraperApp window with its       *)
(* worker threads.                                                         *)
(*                                                                         *)
(* A parsed tree is a sequence of nodes in document (pre-order) order.     *)
(* Node i of the sequence has identity i (Python's id(node)); identity 0   *)
(* is the container the walk starts from (soup.body, or soup itself when   *)
(* the document has no body).  Strings are sequences of one-character      *)
(* strings, URLs are sequences of URL components.                          *)
(***************************************************************************)
EXTENDS Integers, Sequences, FiniteSets, TLC

\* ------------------------------------------------------------------ bounds

\* Largest number of nodes below the container in an explored document.
MaxNodes == 3

\* Largest number of nodes in the two documents extracted in parallel, taken
\* together.
MaxParNodes == 2

\* Most URLs submitted, in all, in an explored run of the window.
MaxUrls == 2

\* ------------------------------------------------------- program constants

PRIMARY_TAGS ==
    {"h1", "h2", "h3", "h4", "h5", "h6", "p", "li", "a", "img", "th", "td"}

\* The tag names whose text the recovery pass ignores (line 183).
IgnoredParents ==
    {"script", "style", "noscript", "meta", "link", "title", "head", "html", "body"}

\* ------------------------------------------------------------------ strings

\* Characters str.split() treats as whitespace.
Whitespace == {" ", "\n", "\t"}

\* An attribute that is not set: element.get(name) returns None.
None == <<"None">>

\* The longest prefix of s without whitespace.
RECURSIVE Word(_)
Word(s) ==
    IF s = <<>> \/ Head(s) \in Whitespace THEN <<>>
    ELSE <<Head(s)>> \o Word(Tail(s))

\* str.split(): the words of s, separated by runs of whitespace.
RECURSIVE split(_)
split(s) ==
    IF s = <<>> THEN <<>>
    ELSE IF Head(s) \in Whitespace THEN split(Tail(s))
    ELSE LET w == Word(s) IN <<w>> \o split(SubSeq(s, Len(w) + 1, Len(s)))

\* ' '.join(words)
RECURSIVE join(_)
join(words) ==
    IF words = <<>> THEN <<>>
    ELSE IF Len(words) = 1 THEN Head(words)
    ELSE Head(words) \o <<" ">> \o join(Tail(words))

\* str.strip(): s without leading and trailing whitespace.
RECURSIVE strip(_)
strip(s) ==
    IF s = <<>> THEN <<>>
    ELSE IF Head(s) \in Whitespace THEN strip(Tail(s))
    ELSE IF s[Len(s)] \in Whitespace THEN strip(SubSeq(s, 1, Len(s) - 1))
    ELSE s

\* A plausible slip: the text is trimmed but inner runs are not collapsed.
clean_text_trim_only(text) == strip(text)

clean_text(text) == strip(join(split(text)))

\* ---------------------------------------------------------------- documents

Txt(t) ==
    [tag |-> "#text", text |-> t, href |-> None, title |-> None,
     src |-> None, data_src |-> None, alt |-> None]

Elem(tag) ==
    [tag |-> tag, text |-> <<>>, href |-> None, title |-> None,
     src |-> None, data_src |-> None, alt |-> None]

Anchor(href, title) == [Elem("a") EXCEPT !.href = href, !.title = title]

Img(data_src, src, alt) ==
    [Elem("img") EXCEPT !.data_src = data_src, !.src = src, !.alt = alt]

\* The raw strings of the explored text nodes: whitespace only, and two words
\* with whitespace around and between them.
RawTexts == { <<" ", "\n">>, <<" ", "x", "\t", " ", "y", " ">> }

\* URL components.  A reference is absolute (it starts with an origin), a
\* path from the origin's root, a path relative to the base, or malformed.
Origins == {"https://ex.com", "https://o.org"}
RootPaths == {"/x"}
Malformed == {"http://["}

\* The explored elements.  Text-bearing tags and a generic container:
TextElementKinds == {Elem(t) : t \in {"h2", "p", "div"}}

\* <a>: no href (but a title), an empty href, a root-relative href without
\* and with a title, and a malformed href with a blank title.
AnchorKinds ==
    {Anchor(None, <<" ", "T">>), Anchor(<<>>, None), Anchor(<<"/x">>, None),
     Anchor(<<"/x">>, <<" ", "T", " ">>), Anchor(<<"http://[">>, <<" ">>)}

\* <img>: an empty src and no data-src, an empty data-src and a relative src
\* without alt, and a malformed data-src beside a src and an alt.
ImgKinds ==
    {Img(None, <<>>, None), Img(<<>>, <<"b.png">>, None),
     Img(<<"http://[">>, <<"b.png">>, <<" ", "A", " ">>)}

ElementKinds == TextElementKinds \cup AnchorKinds \cup ImgKinds

TextKinds == {Txt(t) : t \in RawTexts}

\* html.parser gives a text node and an <img> (a void element) no children.
IsLeaf(node) == node.tag \in {"#text", "img"}

\* A plausible slip: the container is taken to be a body in every document.
ContainerTagBodyOnly(doc) == "body"

\* The container's own tag name: container = soup.body, else soup (line 99).
ContainerTag(doc) == IF doc.body THEN "body" ELSE "[document]"

\* ------------------------------------------------------------------- state

VARIABLES
    soup,                \* the parsed document: [kind, parent, body]
    pc,                  \* where the call is: parse, walk, recover, returned, raised
    scraped_data,        \* the records produced so far, in order of emission
    processed_elements,  \* the ConsumedSet: identities of consumed nodes
    elements_found,      \* the primary elements the walker loops over
    all_text_nodes,      \* the text nodes the recovery pass loops over
    pos,                 \* index of the next item of the running loop
    message_queue,       \* the messages logged so far
    origin,              \* for each record, the node it was derived from
    walker_data,         \* the records as they stood when the walker pass ended
    walker_consumed,     \* the ConsumedSet as it stood when the walker pass ended
    raised,              \* the exception the last step raised, "None" if none
    calls,               \* calls of scrape_dynamic_content started: 0, 1, or 2 for more
    first_result,        \* what the first call returned
    html_content,        \* process_single_url: what fetch_page returned
    csv_file,            \* process_single_url: the rows written to the CSV file
    other,               \* the locals of a call running in another thread
    url_input,           \* GUI: the text of the URL input widget
    widget_state,        \* GUI: the state option of the input and the buttons
    threads,             \* GUI: the worker threads started so far
    after_queue,         \* GUI: the callbacks scheduled with root.after
    status_output        \* GUI: the lines of the status log widget

vars == <<soup, pc, scraped_data, processed_elements, elements_found,
          all_text_nodes, pos, message_queue, origin, walker_data,
          walker_consumed, raised, calls, first_result, html_content,
          csv_file, other, url_input, widget_state, threads, after_queue,
          status_output>>

\* The variables of process_single_url around the call.
pipeline == <<html_content, csv_file>>

\* The variables of the ScraperApp window.
gui == <<url_input, widget_state, threads, after_queue, status_output>>

\* What a step of scrape_dynamic_content cannot reach.
outer == <<pipeline, other, gui>>

locals == <<scraped_data, processed_elements, elements_found, all_text_nodes,
            pos, message_queue, origin, walker_data, walker_consumed, raised>>

\* ------------------------------------------------------------ tree queries

NodeIds == 1..Len(soup.kind)

TagOf(i) == IF i = 0 THEN ContainerTag(soup) ELSE soup.kind[i].tag

ParentOf(i) == soup.parent[i]

IsText(i) == i \in NodeIds /\ soup.kind[i].tag = "#text"

IsElement(i) == i \in NodeIds /\ soup.kind[i].tag # "#text"

\* The nodes on the path from node i up to the container, both included.
RECURSIVE PathUp(_)
PathUp(i) == IF i = 0 THEN {0} ELSE {i} \cup PathUp(ParentOf(i))

\* Every node below e, at any depth.
Descendants(e) == {j \in NodeIds : j # e /\ e \in PathUp(j)}

\* The elements of a set of node identities, in document order.
RECURSIVE InDocumentOrder(_)
InDocumentOrder(S) ==
    IF S = {} THEN <<>>
    ELSE LET first == CHOOSE i \in S : \A j \in S : i <= j
         IN  <<first>> \o InDocumentOrder(S \ {first})

\* container.find_all(list(PRIMARY_TAGS)), line 106.
FindPrimary == InDocumentOrder({i \in NodeIds : TagOf(i) \in PRIMARY_TAGS})

\* container.find_all(string=True), line 176.
FindStrings == InDocumentOrder({i \in NodeIds : IsText(i)})

\* element.get_text(): the strings below e, concatenated in document order.
RECURSIVE Concat(_)
Concat(ids) ==
    IF ids = <<>> THEN <<>> ELSE soup.kind[Head(ids)].text \o Concat(Tail(ids))

get_text(e) == Concat(InDocumentOrder({j \in Descendants(e) : IsText(j)}))

\* ------------------------------------------------------------ URL resolution

\* The base URL the call is given: an origin and a directory path.
base_url == <<"https://ex.com", "/a/">>

\* urljoin raises ValueError on a malformed reference or base.
UrljoinRaises(base, url) ==
    \E i \in 1..Len(base \o url) : (base \o url)[i] \in Malformed

\* urllib.parse.urljoin(base, url) where it does not raise.
urljoin(base, url) ==
    IF base = <<>> THEN url
    ELSE IF url = <<>> THEN base
    ELSE IF Head(url) \in Origins THEN url
    ELSE IF Head(url) \in RootPaths THEN <<Head(base)>> \o url
    ELSE base \o url

\* A plausible slip: the handler leaves the URL empty.
ResolveWithoutFallback(ref) ==
    IF UrljoinRaises(base_url, ref) THEN <<>> ELSE urljoin(base_url, ref)

\* The try/except ValueError around urljoin (lines 132-136, 142-146):
\* the raw reference is the fallback.
Resolve(ref) ==
    IF UrljoinRaises(base_url, ref) THEN ref ELSE urljoin(base_url, ref)

\* --------------------------------------------------------- classification

\* record = None (line 117).
NoRecord == [type |-> "None"]

\* Python's truth value of an attribute value: None and '' are false.
Truthy(v) == v # None /\ v # <<>>

\* element.get(name, ''): the value, or '' when the attribute is not set.
GetOrEmpty(v) == IF v = None THEN <<>> ELSE v

\* A plausible slip: the operands are swapped, so that src wins over data-src.
OrSwapped(x, y) == IF Truthy(y) THEN y ELSE x

\* x or y
Or(x, y) == IF Truthy(x) THEN x ELSE y

IsHeadingTag(tag_name) == tag_name \in {"h1", "h2", "h3", "h4", "h5", "h6"}

TextRecordType(tag_name) ==
    CASE IsHeadingTag(tag_name) -> "heading_" \o tag_name
      [] tag_name = "p"  -> "paragraph"
      [] tag_name = "li" -> "list_item"
      [] tag_name = "th" -> "table_header"
      [] tag_name = "td" -> "table_data"

\* A plausible slip: the title is not in the fallback chain.
LinkTextNoTitle(text_content, title, absolute_href) ==
    Or(text_content, absolute_href)

\* link_text = text_content or clean_text(element.get('title', '')) or absolute_href
LinkText(text_content, title, absolute_href) ==
    Or(text_content, Or(clean_text(GetOrEmpty(title)), absolute_href))

\* A plausible slip: the href is only tested for presence.
HrefUsableIfPresent(href) == href # None

\* if href: (line 131)
HrefUsable(href) == Truthy(href)

\* The body of the try block (lines 120-154): the record of element e, or
\* NoRecord.
Classify(e) ==
    LET element == soup.kind[e]
        tag_name == element.tag
        text_content == clean_text(get_text(e))
    IN  IF tag_name \in {"p", "li", "th", "td"} \/ IsHeadingTag(tag_name)
        THEN IF Truthy(text_content)
             THEN [type |-> TextRecordType(tag_name), data |-> text_content]
             ELSE NoRecord
        ELSE IF tag_name = "a"
        THEN IF HrefUsable(element.href)
             THEN LET absolute_href == Resolve(element.href)
                  IN  [type |-> "link",
                       data |-> [text |-> LinkText(text_content, element.title,
                                                    absolute_href),
                                 url |-> absolute_href]]
             ELSE NoRecord
        ELSE IF tag_name = "img"
        THEN LET src_value == Or(element.data_src, element.src)
             IN  IF Truthy(src_value)
                 THEN [type |-> "image",
                       data |-> [src |-> Resolve(src_value),
                                 alt |-> clean_text(GetOrEmpty(element.alt))]]
                 ELSE NoRecord
        ELSE NoRecord

\* The warnings the try block logs for element e (lines 136, 146).
ClassifyWarnings(e) ==
    LET element == soup.kind[e]
    IN  IF element.tag = "a" /\ HrefUsable(element.href)
           /\ UrljoinRaises(base_url, element.href)
        THEN <<"[!] Warning: Could not create absolute URL for href">>
        ELSE IF element.tag = "img" /\ Truthy(Or(element.data_src, element.src))
                /\ UrljoinRaises(base_url, Or(element.data_src, element.src))
        THEN <<"[!] Warning: Could not create absolute URL for src">>
        ELSE <<>>

\* A plausible slip: the element's parent is marked along with it.
ConsumedByWithParent(e) ==
    {e, ParentOf(e)} \cup {j \in Descendants(e) : IsElement(j)}
        \cup {j \in NodeIds : IsText(j) /\ ParentOf(j) = e}

\* A plausible slip: only the element itself is marked.
ConsumedBySelfOnly(e) == {e}

\* The rule as the design states it: every node below the element is marked.
ConsumedByWholeSubtree(e) == {e} \cup Descendants(e)

\* What a record of element e adds to the ConsumedSet (lines 162-168): the
\* element, every element below it (find_all(True)), and the strings that
\* are its direct children (find_all(string=True, recursive=False)).
ConsumedBy(e) ==
    {e} \cup {j \in Descendants(e) : IsElement(j)}
        \cup {j \in NodeIds : IsText(j) /\ ParentOf(j) = e}

\* A plausible slip: the set is replaced instead of extended.
MarkReplacing(consumed, ids) == ids

\* processed_elements.add(...)
Mark(consumed, ids) == consumed \cup ids

\* A plausible slip: the record is put in front of the list.
EmitInFront(list, item) == <<item>> \o list

\* scraped_data.append(record)
Emit(list, item) == Append(list, item)

Log(messages) == message_queue' = message_queue \o messages

\* ----------------------------------------------------------------- actions

\* A local that is not assigned yet.
Unset == <<"unset">>

\* The CSV file of the URL is not there.
NoFile == [exists |-> FALSE, rows |-> <<>>]

\* No call is running in another thread.
NoThread == [pc |-> "none"]

\* The locals and the bookkeeping of a call that has not started.
InitLocals ==
    /\ scraped_data = <<>>
    /\ processed_elements = {}
    /\ elements_found = <<>>
    /\ all_text_nodes = <<>>
    /\ pos = 1
    /\ message_queue = <<>>
    /\ origin = <<>>
    /\ walker_data = <<>>
    /\ walker_consumed = {}
    /\ raised = "None"
    /\ calls = 0
    /\ first_result = <<>>

\* ScraperApp.__init__ (lines 249-287): an empty input, widgets in their
\* default state (normal), no worker thread, nothing scheduled but
\* check_queue, an empty status log.
InitGui ==
    /\ url_input = <<>>
    /\ widget_state = [url_input |-> "normal", scrape_button |-> "normal",
                       clear_button |-> "normal"]
    /\ threads = <<>>
    /\ after_queue = <<>>
    /\ status_output = <<>>

\* The document is about to be parsed from a page that was fetched.
Init ==
    /\ soup \in {[kind |-> <<>>, parent |-> <<>>, body |-> b] : b \in BOOLEAN}
    /\ pc = "parse"
    /\ InitLocals
    /\ html_content = <<"<html>">>
    /\ csv_file = NoFile
    /\ other = NoThread
    /\ InitGui

\* BeautifulSoup(html_content, "html.parser"), line 222: the parser appends
\* the next node in document order, as a child of an open element (a node on
\* the path from the last node up to the container).  It merges adjacent
\* strings, so a text node never directly follows a sibling text node.
IsOpen(q) == IF q = 0 THEN TRUE ELSE ~IsLeaf(soup.kind[q])

MergesWithLast(q, k) ==
    LET n == Len(soup.kind)
    IN  IF n > 0 /\ k.tag = "#text" THEN IsText(n) /\ ParentOf(n) = q ELSE FALSE

ParseNode ==
    /\ pc = "parse"
    /\ Len(soup.kind) < MaxNodes
    /\ LET n == Len(soup.kind)
       IN  \E q \in PathUp(n), k \in ElementKinds \cup TextKinds :
             /\ IsOpen(q)
             /\ ~MergesWithLast(q, k)
             /\ soup' = [soup EXCEPT !.kind = Append(@, k), !.parent = Append(@, q)]
    /\ UNCHANGED <<pc, locals, calls, first_result>>
    /\ UNCHANGED outer

\* A plausible slip: the ConsumedSet outlives the call.
StaleConsumed == processed_elements

\* processed_elements = set(), line 94.
FreshConsumed == {}

\* Lines 93-109 of a call that is given the queue with the messages queue:
\* the locals, the choice of the container, and the list of primary elements.
BeginWith(queue) ==
    /\ scraped_data' = <<>>
    /\ processed_elements' = FreshConsumed
    /\ origin' = <<>>
    /\ elements_found' = FindPrimary
    /\ all_text_nodes' = <<>>
    /\ pos' = 1
    /\ walker_data' = <<>>
    /\ walker_consumed' = {}
    /\ message_queue' =
          queue
          \o <<"[*] Starting dynamic content extraction...">>
          \o (IF soup.body THEN <<>>
              ELSE <<"[!] Warning: Could not find the <body> tag.">>)
          \o <<"[*] Found primary elements to analyze.">>
    /\ raised' = "None"
    /\ calls' = IF calls < 2 THEN calls + 1 ELSE calls
    /\ pc' = "walk"
    /\ UNCHANGED soup
    /\ UNCHANGED outer

\* The call logs to the queue it is given by its caller.
Begin == BeginWith(message_queue)

\* scrape_dynamic_content(soup, base_url, message_queue) is called on the
\* parsed document.
Start ==
    /\ pc = "parse"
    /\ Begin
    /\ UNCHANGED first_result

\* The function is called again on the same document, with an empty queue.
CallAgain ==
    /\ pc = "returned"
    /\ BeginWith(<<>>)
    /\ first_result' = IF calls = 1 THEN scraped_data ELSE first_result

\* One iteration of the walker's loop, lines 110-168, when nothing raises.
WalkStep ==
    /\ pc = "walk"
    /\ pos <= Len(elements_found)
    /\ LET element == elements_found[pos]
           record == Classify(element)
       IN  IF element \in processed_elements
           THEN UNCHANGED <<scraped_data, origin, processed_elements, message_queue>>
           ELSE /\ Log(ClassifyWarnings(element))
                /\ IF record.type # "None"
                   THEN /\ scraped_data' = Emit(scraped_data, record)
                        /\ origin' = Emit(origin, element)
                        /\ processed_elements' =
                              Mark(processed_elements, ConsumedBy(element))
                   ELSE UNCHANGED <<scraped_data, origin, processed_elements>>
    /\ pos' = pos + 1
    /\ raised' = "None"
    /\ UNCHANGED <<soup, pc, elements_found, all_text_nodes, walker_data,
                   walker_consumed, calls, first_result>>
    /\ UNCHANGED outer

\* The walker's loop ends (lines 170-176): the recovery pass lists the strings.
WalkDone ==
    /\ pc = "walk"
    /\ pos > Len(elements_found)
    /\ Log(<<"[*] Processed primary elements.",
             "[*] Searching for additional text chunks...">>)
    /\ walker_data' = scraped_data
    /\ walker_consumed' = processed_elements
    /\ all_text_nodes' = FindStrings
    /\ pos' = 1
    /\ pc' = "recover"
    /\ raised' = "None"
    /\ UNCHANGED <<soup, scraped_data, origin, processed_elements, elements_found,
                   calls, first_result>>
    /\ UNCHANGED outer

\* A plausible slip: the string's parent is marked with it.
RecoveredWithParent(t) == {t, ParentOf(t)}

\* What a visited string adds to the ConsumedSet (lines 184, 198).
Recovered(t) == {t}

\* A plausible slip: the tag of the parent is not looked at.
OrphanByIdentityOnly(t) == ParentOf(t) \notin processed_elements

\* The condition of line 193 for the string t.
Orphan(t) ==
    /\ ParentOf(t) \notin processed_elements
    /\ TagOf(ParentOf(t)) \notin PRIMARY_TAGS

\* One iteration of the recovery loop, lines 177-198, when nothing raises.
RecoverStep ==
    /\ pc = "recover"
    /\ pos <= Len(all_text_nodes)
    /\ LET element == all_text_nodes[pos]
           text == clean_text(soup.kind[element].text)
       IN  IF element \in processed_elements
           THEN UNCHANGED <<scraped_data, origin, processed_elements>>
           ELSE IF TagOf(ParentOf(element)) \in IgnoredParents
           THEN /\ processed_elements' = Mark(processed_elements, Recovered(element))
                /\ UNCHANGED <<scraped_data, origin>>
           ELSE /\ IF Truthy(text) /\ Orphan(element)
                   THEN /\ scraped_data' =
                              Emit(scraped_data, [type |-> "text_chunk", data |-> text])
                        /\ origin' = Emit(origin, element)
                   ELSE UNCHANGED <<scraped_data, origin>>
                /\ processed_elements' = Mark(processed_elements, Recovered(element))
    /\ pos' = pos + 1
    /\ raised' = "None"
    /\ UNCHANGED <<soup, pc, elements_found, all_text_nodes, message_queue,
                   walker_data, walker_consumed, calls, first_result>>
    /\ UNCHANGED outer

\* Lines 203-205: the call returns scraped_data.
Return ==
    /\ pc = "recover"
    /\ pos > Len(all_text_nodes)
    /\ Log(<<"[+] Found total content items.">>)
    /\ pc' = "returned"
    /\ raised' = "None"
    /\ UNCHANGED <<soup, scraped_data, origin, processed_elements, elements_found,
                   all_text_nodes, pos, walker_data, walker_consumed, calls,
                   first_result>>
    /\ UNCHANGED outer

\* ------------------------------------------------------------------ faults

\* element.get_text() or clean_text raises at line 116, which is outside the
\* try block of line 119: the exception leaves the loop and the function.
WalkGetTextRaises ==
    /\ pc = "walk"
    /\ pos <= Len(elements_found)
    /\ elements_found[pos] \notin processed_elements
    /\ raised' = "get_text"
    /\ pc' = "raised"
    /\ UNCHANGED <<soup, scraped_data, origin, processed_elements, elements_found,
                   all_text_nodes, pos, message_queue, walker_data,
                   walker_consumed, calls, first_result>>
    /\ UNCHANGED outer

\* An attribute read of an <a> or <img> raises inside the try block: the
\* handler of lines 156-158 logs it and continues with the next element.
WalkElementError ==
    /\ pc = "walk"
    /\ pos <= Len(elements_found)
    /\ elements_found[pos] \notin processed_elements
    /\ TagOf(elements_found[pos]) \in {"a", "img"}
    /\ raised' = "attribute"
    /\ Log(<<"[!] Error processing element">>)
    /\ pos' = pos + 1
    /\ UNCHANGED <<soup, pc, scraped_data, origin, processed_elements,
                   elements_found, all_text_nodes, walker_data, walker_consumed,
                   calls, first_result>>
    /\ UNCHANGED outer

\* A plausible slip: the handler starts the result over.
DroppedOnRecoveryError(list) == <<>>

\* The handler of lines 199-200 leaves scraped_data as it is.
KeptOnRecoveryError(list) == list

\* Examining a string that is not yet consumed raises (lines 183-198): the
\* handler of lines 199-200 logs it, and the loop is abandoned.
RecoverRaises ==
    /\ pc = "recover"
    /\ pos <= Len(all_text_nodes)
    /\ all_text_nodes[pos] \notin processed_elements
    /\ raised' = "string"
    /\ Log(<<"[!] Error during additional text search">>)
    /\ scraped_data' = KeptOnRecoveryError(scraped_data)
    /\ origin' = KeptOnRecoveryError(origin)
    /\ pos' = Len(all_text_nodes) + 1
    /\ UNCHANGED <<soup, pc, processed_elements, elements_found, all_text_nodes,
                   walker_data, walker_consumed, calls, first_result>>
    /\ UNCHANGED outer

Next ==
    \/ ParseNode
    \/ Start
    \/ WalkStep
    \/ WalkDone
    \/ RecoverStep
    \/ Return

Spec == Init /\ [][Next]_vars

\* The same, with the function called again on the document it returned from.
NextTwice == Next \/ CallAgain

TwiceSpec == Init /\ [][NextTwice]_vars

\* The same as Spec, with the steps at which a library call raises.
NextFault == Next \/ WalkGetTextRaises \/ WalkElementError \/ RecoverRaises

FaultSpec == Init /\ [][NextFault]_vars

\* The same as Spec, with a recovery pass that can fail.
NextRecoveryFault == Next \/ RecoverRaises

RecoveryFaultSpec == Init /\ [][NextRecoveryFault]_vars

\* ------------------------------------------------------ process_single_url

\* What fetch_page can return (lines 28-51): the text of the response, which
\* may be empty, or None after one of the three handlers, each with its
\* last message.
FetchOutcomes ==
    {[html |-> <<"<html>">>, message |-> "[+] Successfully fetched page"],
     [html |-> <<>>,         message |-> "[+] Successfully fetched page"],
     [html |-> None,         message |-> "[!] Error: Request timed out"],
     [html |-> None,         message |-> "[!] Error fetching"],
     [html |-> None,         message |-> "[!] An unexpected error occurred during fetching"]}

\* process_single_url is entered: nothing is fetched, parsed or written.
PipelineInit ==
    /\ soup \in {[kind |-> <<>>, parent |-> <<>>, body |-> b] : b \in BOOLEAN}
    /\ pc = "fetch"
    /\ InitLocals
    /\ html_content = Unset
    /\ csv_file = NoFile
    /\ other = NoThread
    /\ InitGui

\* A plausible slip: the result of the fetch is not tested.
AfterFetchUntested(html) == "parse"

\* if not html_content: ... return (lines 215-217).
AfterFetch(html) == IF Truthy(html) THEN "parse" ELSE "skipped"

\* Lines 211-220: the fetch, and the return when it gave nothing.
FetchPage ==
    /\ pc = "fetch"
    /\ \E outcome \in FetchOutcomes :
          /\ html_content' = outcome.html
          /\ pc' = AfterFetch(outcome.html)
          /\ Log(<<"--- Processing URL ---", "[*] Fetching page...", outcome.message>>
                 \o (IF AfterFetch(outcome.html) = "parse"
                     THEN <<"[*] Parsing HTML content...">>
                     ELSE <<"[!] Skipping due to fetch error.">>))
    /\ UNCHANGED <<soup, scraped_data, processed_elements, elements_found,
                   all_text_nodes, pos, origin, walker_data, walker_consumed,
                   raised, calls, first_result, csv_file, other, gui>>

\* BeautifulSoup(...) raises (lines 224-226): no tree, and the function
\* returns.
ParseFails ==
    /\ pc = "parse"
    /\ Len(soup.kind) = 0
    /\ pc' = "parse_failed"
    /\ Log(<<"[!] Error parsing HTML">>)
    /\ UNCHANGED <<soup, scraped_data, processed_elements, elements_found,
                   all_text_nodes, pos, origin, walker_data, walker_consumed,
                   raised, calls, first_result, outer>>

\* BeautifulSoup(...) returns the tree (lines 222-223).
ParseSucceeds ==
    /\ pc = "parse"
    /\ pc' = "parsed"
    /\ Log(<<"[+] HTML parsed successfully.">>)
    /\ UNCHANGED <<soup, scraped_data, processed_elements, elements_found,
                   all_text_nodes, pos, origin, walker_data, walker_consumed,
                   raised, calls, first_result, outer>>

\* scraped_rows = scrape_dynamic_content(soup, effective_url, message_queue),
\* line 229.
Scrape ==
    /\ pc = "parsed"
    /\ Begin
    /\ UNCHANGED first_result

\* str(data), line 241: a string is itself, a dict is its repr.
Str(record) ==
    IF record.type = "link"
    THEN <<"{'text': '">> \o record.data.text \o <<"', 'url': '">>
         \o record.data.url \o <<"'}">>
    ELSE IF record.type = "image"
    THEN <<"{'src': '">> \o record.data.src \o <<"', 'alt': '">>
         \o record.data.alt \o <<"'}">>
    ELSE record.data

\* The rows of the DataFrame as they are written (lines 239-242).
CsvRows(rows) ==
    [i \in 1..Len(rows) |-> [type |-> rows[i].type, data |-> Str(rows[i])]]

\* Lines 231-245: nothing is saved when there are no records; otherwise the
\* rows are written, or the write raises and the handler logs it.
Save ==
    /\ pc = "returned"
    /\ IF ~(scraped_data # <<>>)
       THEN /\ pc' = "nothing_to_save"
            /\ Log(<<"[!] No scrapable content found for this URL.">>)
            /\ UNCHANGED csv_file
       ELSE \E written \in BOOLEAN :
              IF written
              THEN /\ csv_file' = [exists |-> TRUE, rows |-> CsvRows(scraped_data)]
                   /\ pc' = "saved"
                   /\ Log(<<"[*] Preparing to save data", "Successfully saved rows">>)
              ELSE /\ UNCHANGED csv_file
                   /\ pc' = "save_failed"
                   /\ Log(<<"[*] Preparing to save data", "[!] Error saving data to CSV">>)
    /\ UNCHANGED <<soup, scraped_data, processed_elements, elements_found,
                   all_text_nodes, pos, origin, walker_data, walker_consumed,
                   raised, calls, first_result, html_content, other, gui>>

PipelineNext ==
    \/ FetchPage
    \/ ParseNode
    \/ ParseFails
    \/ ParseSucceeds
    \/ Scrape
    \/ WalkStep
    \/ WalkDone
    \/ RecoverStep
    \/ Return
    \/ Save

PipelineSpec == PipelineInit /\ [][PipelineNext]_vars

\* ------------------------------------------------------- two calls at once

\* Two threads call scrape_dynamic_content, each on its own document; the
\* interpreter runs one thread at a time and switches between steps.  The
\* variables of the call hold the frame of the running thread, other holds
\* the frame of the suspended one.  Each caller hands its call a queue of
\* its own.
Frame ==
    [soup |-> soup, pc |-> pc, message_queue |-> message_queue,
     scraped_data |-> scraped_data,
     processed_elements |-> processed_elements,
     elements_found |-> elements_found, all_text_nodes |-> all_text_nodes,
     pos |-> pos, origin |-> origin, walker_data |-> walker_data,
     walker_consumed |-> walker_consumed, raised |-> raised, calls |-> calls,
     first_result |-> first_result]

\* The frame of a thread that has its document still to parse.
NewFrame(b) ==
    [soup |-> [kind |-> <<>>, parent |-> <<>>, body |-> b], pc |-> "parse",
     message_queue |-> <<>>, scraped_data |-> <<>>, processed_elements |-> {}, elements_found |-> <<>>,
     all_text_nodes |-> <<>>, pos |-> 1, origin |-> <<>>, walker_data |-> <<>>,
     walker_consumed |-> {}, raised |-> "None", calls |-> 0,
     first_result |-> <<>>]

ParInit ==
    /\ soup \in {[kind |-> <<>>, parent |-> <<>>, body |-> b] : b \in BOOLEAN}
    /\ pc = "parse"
    /\ InitLocals
    /\ html_content = <<"<html>">>
    /\ csv_file = NoFile
    /\ other \in {NewFrame(b) : b \in BOOLEAN}
    /\ InitGui

\* The parser, on the smaller documents of the two threads.
ParseSmall ==
    /\ Len(soup.kind) + Len(other.soup.kind) < MaxParNodes
    /\ ParseNode

\* A plausible slip: the output list is one object shared by the calls.
SharedList(own, running) == running

\* scraped_data = [] (line 93) binds a list of the call's own.
OwnList(own, running) == own

\* A plausible slip: the ConsumedSet is one object shared by the calls.
SharedSet(own, running) == running

\* processed_elements = set() (line 94) binds a set of the call's own.
OwnSet(own, running) == own

\* The frame f is in the middle of its first call.
InFirstCall(f) == f.calls = 1 /\ f.pc \in {"walk", "recover"}

\* The interpreter suspends the running thread and resumes the other one.
\* To have what each call returns when it runs alone, a thread's first call
\* is not interleaved: no switch while either thread is inside its first
\* call, and the second thread starts only when the first is between calls.
Switch ==
    /\ ~InFirstCall(Frame)
    /\ ~InFirstCall(other)
    /\ other.calls = 0 => pc = "returned"
    /\ other' = Frame
    /\ soup' = other.soup
    /\ pc' = other.pc
    /\ scraped_data' = OwnList(other.scraped_data, scraped_data)
    /\ processed_elements' = OwnSet(other.processed_elements, processed_elements)
    /\ elements_found' = other.elements_found
    /\ all_text_nodes' = other.all_text_nodes
    /\ pos' = other.pos
    /\ origin' = other.origin
    /\ walker_data' = other.walker_data
    /\ walker_consumed' = other.walker_consumed
    /\ raised' = other.raised
    /\ calls' = other.calls
    /\ first_result' = other.first_result
    /\ message_queue' = other.message_queue
    /\ UNCHANGED <<pipeline, gui>>

ParNext ==
    \/ ParseSmall
    \/ Start
    \/ WalkStep
    \/ WalkDone
    \/ RecoverStep
    \/ Return
    \/ CallAgain
    \/ Switch

ParSpec == ParInit /\ [][ParNext]_vars

\* ---------------------------------------------------------------- the window

\* The texts the user types into the URL input.  A text is a sequence of
\* URLs (each one token) and of the characters that separate them.
UrlTexts ==
    { <<>>,
      <<" ", "\n">>,
      <<",", " ">>,
      <<"a.example">>,
      <<" ", "b.example", ",", " ", "\n", "a.example", "\n">> }

\* s.split(sep): the pieces of s between the occurrences of sep.
RECURSIVE SplitOn(_, _)
SplitOn(s, sep) ==
    IF \A k \in 1..Len(s) : s[k] # sep THEN <<s>>
    ELSE LET first == CHOOSE k \in 1..Len(s) :
                          s[k] = sep /\ \A j \in 1..(k - 1) : s[j] # sep
         IN  <<SubSeq(s, 1, first - 1)>> \o SplitOn(SubSeq(s, first + 1, Len(s)), sep)

\* [f(x) for x in pieces]
RECURSIVE StripEach(_)
StripEach(pieces) ==
    IF pieces = <<>> THEN <<>>
    ELSE <<strip(Head(pieces))>> \o StripEach(Tail(pieces))

\* [x for x in pieces if x]
RECURSIVE NonEmpty(_)
NonEmpty(pieces) ==
    IF pieces = <<>> THEN <<>>
    ELSE (IF Head(pieces) # <<>> THEN <<Head(pieces)>> ELSE <<>>)
         \o NonEmpty(Tail(pieces))

\* The pieces of every line, line after line.
RECURSIVE SplitLines(_)
SplitLines(lines) ==
    IF lines = <<>> THEN <<>>
    ELSE SplitOn(Head(lines), ",") \o SplitLines(Tail(lines))

\* Line 343: [url.strip() for line in url_text.splitlines()
\*            for url in line.split(',') if url.strip()]
ParseUrls(url_text) == NonEmpty(StripEach(SplitLines(SplitOn(url_text, "\n"))))

\* busy_state = tk.DISABLED if enabled else tk.NORMAL (line 321).
BusyState(enabled) == IF enabled THEN "disabled" ELSE "normal"

\* set_ui_state(enabled), lines 318-332.
set_ui_state(w, enabled) ==
    [w EXCEPT !.url_input = IF enabled THEN "normal" ELSE "disabled",
              !.scrape_button = BusyState(enabled),
              !.clear_button = BusyState(enabled)]

\* The window is open and nothing was typed or clicked; no URL is being
\* processed by this thread.
GuiInit ==
    /\ soup = [kind |-> <<>>, parent |-> <<>>, body |-> TRUE]
    /\ pc = "mainloop"
    /\ InitLocals
    /\ html_content = Unset
    /\ csv_file = NoFile
    /\ other = NoThread
    /\ InitGui

call == <<soup, pc, scraped_data, processed_elements, elements_found,
          all_text_nodes, pos, origin, walker_data, walker_consumed, raised,
          calls, first_result, pipeline, other>>

\* The user edits the URL input, which a disabled text widget does not allow.
TypeUrls ==
    /\ widget_state.url_input = "normal"
    /\ \E text \in UrlTexts :
          /\ text # url_input
          /\ url_input' = text
    /\ UNCHANGED <<call, message_queue, widget_state, threads, after_queue,
                   status_output>>

\* A thread that is about to run run_scraper_thread(urls).
NewThread(urls) ==
    [urls |-> urls, i |-> 1, alive |-> TRUE, attempted |-> <<>>,
     finished_messages |-> 0, resets_scheduled |-> 0]

\* The number of URLs the worker threads ts were started with.
RECURSIVE Submitted(_)
Submitted(ts) ==
    IF ts = <<>> THEN 0 ELSE Len(Head(ts).urls) + Submitted(Tail(ts))

\* The user clicks Start Scraping, which a disabled button does not allow:
\* start_scraping_thread, lines 335-355.  Without a URL in the text the
\* handler shows a warning in a dialog and returns.
StartScrapingThread ==
    /\ widget_state.scrape_button = "normal"
    /\ LET url_text == strip(url_input)
           urls == ParseUrls(url_text)
       IN  IF ~(url_text # <<>>) \/ ~(urls # <<>>)
           THEN UNCHANGED <<widget_state, threads, status_output>>
           ELSE /\ Submitted(threads) + Len(urls) <= MaxUrls
                /\ widget_state' = set_ui_state(widget_state, FALSE)
                /\ status_output' = Append(status_output, "--- Starting scrape ---")
                /\ threads' = Append(threads, NewThread(urls))
    /\ UNCHANGED <<call, message_queue, url_input, after_queue>>

\* The user clicks Clear All, which a disabled button does not allow:
\* clear_all, lines 310-316.  A disabled text widget ignores delete.
ClearAll ==
    /\ widget_state.clear_button = "normal"
    /\ url_input' = IF widget_state.url_input = "normal" THEN <<>> ELSE url_input
    /\ status_output' = <<"--- Cleared ---">>
    /\ UNCHANGED <<call, message_queue, widget_state, threads, after_queue>>

\* check_queue, lines 297-308: it is always scheduled again, so it can run
\* at any time; it moves the queued messages to the status log.
CheckQueue ==
    /\ message_queue # <<>>
    /\ status_output' = status_output \o message_queue
    /\ message_queue' = <<>>
    /\ UNCHANGED <<call, url_input, widget_state, threads, after_queue>>

\* The main loop runs the oldest callback scheduled with root.after(0, ...),
\* which is set_ui_state(True).
RunScheduled ==
    /\ after_queue # <<>>
    /\ widget_state' = set_ui_state(widget_state, Head(after_queue))
    /\ after_queue' = Tail(after_queue)
    /\ UNCHANGED <<call, message_queue, url_input, threads, status_output>>

\* How process_single_url ends for the worker: it returns (whatever it
\* fetched, parsed or saved), or an exception leaves it.
ProcessOutcomes == {"returned", "raised"}

\* A plausible slip: an exception ends the loop.
IndexAfterStoppingOnError(i, n, outcome) ==
    IF outcome = "raised" THEN n + 1 ELSE i + 1

\* The loop goes on to the next URL after the try statement of lines 362-365.
IndexAfter(i, n, outcome) == i + 1

\* One iteration of the worker's loop, lines 360-365.
ProcessUrl(k) ==
    /\ threads[k].alive
    /\ threads[k].i <= Len(threads[k].urls)
    /\ \E outcome \in ProcessOutcomes :
          LET t == threads[k]
              url == t.urls[t.i]
          IN  /\ Log(<<"[i/n] --- Processing URL ---", "--- Processing URL ---">>
                     \o (IF outcome = "raised"
                         THEN <<"[!!!] UNHANDLED EXCEPTION">>
                         ELSE <<>>))
              /\ threads' =
                    [threads EXCEPT ![k].i = IndexAfter(t.i, Len(t.urls), outcome),
                                    ![k].attempted = Append(t.attempted, url)]
    /\ UNCHANGED <<call, url_input, widget_state, after_queue, status_output>>

\* The end of run_scraper_thread, lines 369-372.
FinishThread(k) ==
    /\ threads[k].alive
    /\ threads[k].i > Len(threads[k].urls)
    /\ Log(<<"--- Scraping process finished ---">>)
    /\ after_queue' = Append(after_queue, TRUE)
    /\ threads' = [threads EXCEPT ![k].alive = FALSE,
                                  ![k].finished_messages = @ + 1,
                                  ![k].resets_scheduled = @ + 1]
    /\ UNCHANGED <<call, url_input, widget_state, status_output>>

\* A step of a worker thread.
Worker == \E k \in 1..Len(threads) : ProcessUrl(k) \/ FinishThread(k)

GuiNext ==
    \/ TypeUrls
    \/ StartScrapingThread
    \/ ClearAll
    \/ CheckQueue
    \/ RunScheduled
    \/ \E k \in 1..Len(threads) : ProcessUrl(k)
    \/ \E k \in 1..Len(threads) : FinishThread(k)

GuiSpec == GuiInit /\ [][GuiNext]_vars

\* The same, with the operating system giving every thread its turn.
GuiFairSpec == GuiSpec /\ WF_vars(Worker)

\* ------------------------------------------------------------------ claims

Records == 1..Len(scraped_data)

IsChunk(i) == scraped_data[i].type = "text_chunk"

\* Record i holds the text of the string t: it is t's own text_chunk, or the
\* record of an element t lies below.
Represents(i, t) == origin[i] = t \/ t \in Descendants(origin[i])

\* The strings the completeness claim is about.
ContentStrings ==
    {t \in NodeIds : /\ IsText(t)
                     /\ clean_text(soup.kind[t].text) # <<>>
                     /\ TagOf(ParentOf(t)) \notin IgnoredParents}

\* C1: for every element that yielded a record, no other record (classified
\* or text_chunk) derives from a node below it, at any depth.
C1_NoDuplication ==
    \A i \in Records : \A j \in Records \ {i} :
        origin[j] \notin Descendants(origin[i])

\* A call has returned the record of an element that holds a link with a
\* usable href and a string of its own.
C1_Witness ==
    /\ pc = "returned"
    /\ \E i \in Records : \E a, t \in Descendants(origin[i]) :
          /\ TagOf(a) = "a"
          /\ soup.kind[a].href = <<"/x">>
          /\ t \in ContentStrings

\* C2: after the call returns, every string with non-empty cleaned text whose
\* parent is not a non-content container is in exactly one record.
C2_Completeness ==
    pc = "returned" =>
        \A t \in ContentStrings :
            Cardinality({i \in Records : Represents(i, t)}) = 1

\* C3: the output is the classified records in document order followed by the
\* text_chunk records in document order.
C3_Ordering ==
    \A i \in Records : \A j \in Records :
        i < j =>
            /\ ~(IsChunk(i) /\ ~IsChunk(j))
            /\ (IsChunk(i) <=> IsChunk(j)) => origin[i] < origin[j]

\* A call has returned two classified records and then a text_chunk whose
\* string comes before both elements in the document.
C3_Witness ==
    /\ pc = "returned"
    /\ Len(scraped_data) = 3
    /\ ~IsChunk(1) /\ ~IsChunk(2) /\ IsChunk(3)
    /\ origin[3] < origin[1]

\* The walker has just emitted a record for the element it examined.
WalkerEmits ==
    /\ pc = "walk"
    /\ pc' = "walk"
    /\ Len(scraped_data') = Len(scraped_data) + 1

\* C4 as stated: when the walker emits a record for an element, the
\* ConsumedSet holds the element and every node below it, strings at any
\* depth included, before the next element is examined.
C4_AllDescendantsConsumed ==
    [][WalkerEmits =>
         LET e == elements_found[pos]
         IN  ({e} \cup Descendants(e)) \subseteq processed_elements']_vars

\* C4 as amended: the walker adds the element, every element below it at any
\* depth, and the strings that are its direct children, and nothing else; a
\* string deeper than a direct child is not added by the walker.
C4_ElementsAndChildStrings ==
    [][WalkerEmits =>
         LET e == elements_found[pos]
         IN  processed_elements' =
               processed_elements
                 \cup {e}
                 \cup {j \in NodeIds : j # e /\ e \in PathUp(j) /\ ~IsText(j)}
                 \cup {j \in NodeIds : IsText(j) /\ ParentOf(j) = e}]_vars

\* The walker has emitted the record of an element and left a string two
\* levels below it out of the ConsumedSet.
C4_Witness ==
    /\ pc = "walk"
    /\ \E i \in Records : \E t \in Descendants(origin[i]) :
          /\ IsText(t)
          /\ ParentOf(t) # origin[i]
          /\ ParentOf(t) \in processed_elements
          /\ t \notin processed_elements

\* --------------------------------------------------------- error handling

\* C5: an error raised at any step of deriving one element's record is
\* contained to that element: it is skipped without a record and without
\* being consumed, the error is logged, and the walk goes on with the records
\* emitted so far.
C5_ErrorContained ==
    [][(pc = "walk" /\ raised' # "None") =>
         /\ pc' = "walk"
         /\ pos' = pos + 1
         /\ scraped_data' = scraped_data
         /\ processed_elements' = processed_elements
         /\ Len(message_queue') = Len(message_queue) + 1]_vars

\* list starts with the records of prefix, and only text_chunk records follow.
WalkerRecordsThenChunks(list, prefix) ==
    /\ Len(prefix) <= Len(list)
    /\ SubSeq(list, 1, Len(prefix)) = prefix
    /\ \A i \in (Len(prefix) + 1)..Len(list) : list[i].type = "text_chunk"

\* C6: when the recovery pass fails at a string, the records are left as they
\* are (the walker's records, then the text_chunks emitted before the
\* failure), the loop is over so that the call goes on to return, and the
\* return hands out exactly those records.
C6_RecoveryFailureKeepsRecords ==
    [][/\ raised' = "string" =>
            /\ scraped_data' = scraped_data
            /\ WalkerRecordsThenChunks(scraped_data', walker_data')
            /\ pc' = "recover"
            /\ pos' > Len(all_text_nodes')
       /\ pc' = "returned" =>
            /\ scraped_data' = scraped_data
            /\ WalkerRecordsThenChunks(scraped_data', walker_data')]_vars

\* A call has returned after a failed recovery pass, with a walker record and
\* a text_chunk emitted before the failure.
C6_Witness ==
    /\ pc = "returned"
    /\ \E m \in 1..Len(message_queue) :
          message_queue[m] = "[!] Error during additional text search"
    /\ walker_data # <<>>
    /\ Len(scraped_data) > Len(walker_data)

\* ------------------------------------------------------------ ConsumedSet

\* C7 as stated: the recovery pass never changes the ConsumedSet.
C7_ConsumedSetFrozen ==
    pc \in {"recover", "returned"} => processed_elements = walker_consumed

\* C7 as amended: the recovery pass adds every string it has visited, and
\* nothing else; it removes nothing.
C7_VisitedStringsAdded ==
    pc \in {"recover", "returned"} =>
        processed_elements =
            walker_consumed \cup {all_text_nodes[k] : k \in 1..(pos - 1)}

\* A call has returned with strings consumed by the walker and strings added
\* by the recovery pass.
C7_Witness ==
    /\ pc = "returned"
    /\ \E t \in walker_consumed : IsText(t)
    /\ \E t \in processed_elements \ walker_consumed : IsText(t)

\* C8: within a call the ConsumedSet only grows, in the walker pass and in
\* the recovery pass.
C8_ConsumedSetGrows ==
    [][(pc = "walk" \/ pc = "recover") =>
         processed_elements \subseteq processed_elements']_vars

\* The recovery pass is running on a set that the walker filled with more
\* than one node and that the pass has extended.
C8_Witness ==
    /\ pc = "recover"
    /\ Cardinality(walker_consumed) >= 2
    /\ Cardinality(processed_elements) > Cardinality(walker_consumed)

\* ------------------------------------------------------------ idempotence

\* C9: a call never changes the tree, and a later call on the same tree
\* returns the record sequence the first call returned.
C9_Idempotent ==
    [][/\ pc # "parse" => soup' = soup
       /\ (pc' = "returned" /\ calls' >= 2) => scraped_data' = first_result']_vars

\* The second call has returned a classified record and a text_chunk.
C9_Witness ==
    /\ pc = "returned"
    /\ calls >= 2
    /\ Len(scraped_data) >= 2
    /\ ~IsChunk(1)
    /\ IsChunk(Len(scraped_data))

\* ------------------------------------------------------------------ links

\* The walker examines element e, which is not consumed, and nothing raises.
Examines(e) ==
    /\ pc = "walk"
    /\ pos <= Len(elements_found)
    /\ e = elements_found[pos]
    /\ e \notin processed_elements
    /\ pos' = pos + 1
    /\ raised' = "None"

\* C10: an unconsumed <a> yields a link record exactly when its href is set
\* and not empty; the url is the href resolved against the base URL (the raw
\* href when the resolution fails), the text is the cleaned text content,
\* else the cleaned title, else the url, and is never empty.
C10_LinkRule ==
    [][\A e \in NodeIds :
         (Examines(e) /\ TagOf(e) = "a") =>
           LET href == soup.kind[e].href
               title == soup.kind[e].title
               text == clean_text(get_text(e))
               cleaned_title == IF title = None THEN <<>> ELSE clean_text(title)
               url == IF UrljoinRaises(base_url, href) THEN href
                      ELSE urljoin(base_url, href)
               link_text == IF text # <<>> THEN text
                            ELSE IF cleaned_title # <<>> THEN cleaned_title
                            ELSE url
               last == scraped_data'[Len(scraped_data')]
           IN  IF href # None /\ href # <<>>
               THEN /\ Len(scraped_data') = Len(scraped_data) + 1
                    /\ last.type = "link"
                    /\ last.data.url = url
                    /\ last.data.text = link_text
                    /\ last.data.text # <<>>
               ELSE scraped_data' = scraped_data]_vars

\* A call has returned a link whose text is its cleaned title, and a link
\* whose text is its own text content.
C10_Witness ==
    /\ pc = "returned"
    /\ \E i \in Records :
          IF scraped_data[i].type = "link"
          THEN scraped_data[i].data.text = <<"T">>
          ELSE FALSE
    /\ \E i \in Records :
          IF scraped_data[i].type = "link"
          THEN scraped_data[i].data.text = <<"x", " ", "y">>
          ELSE FALSE

\* --------------------------------------------------------- URL resolution

\* The reference of element e that the walker resolves: the href of an <a>,
\* the data-src or else the src of an <img>.
ReferenceOf(e) ==
    LET element == soup.kind[e]
    IN  IF element.tag = "a" THEN element.href
        ELSE IF element.data_src # None /\ element.data_src # <<>>
        THEN element.data_src
        ELSE element.src

\* C11: when the resolution of a link's href or of an image's source fails,
\* the record is emitted all the same with the raw reference as its URL, one
\* warning is logged, and the walker goes on with the next element.
C11_ResolutionFailureKeepsRecord ==
    [][\A e \in NodeIds :
         (/\ Examines(e)
          /\ TagOf(e) \in {"a", "img"}
          /\ ReferenceOf(e) # None
          /\ \E k \in 1..Len(ReferenceOf(e)) : ReferenceOf(e)[k] \in Malformed) =>
           LET last == scraped_data'[Len(scraped_data')]
           IN  /\ Len(scraped_data') = Len(scraped_data) + 1
               /\ IF TagOf(e) = "a"
                  THEN last.type = "link" /\ last.data.url = ReferenceOf(e)
                  ELSE last.type = "image" /\ last.data.src = ReferenceOf(e)
               /\ Len(message_queue') = Len(message_queue) + 1
               /\ message_queue'[Len(message_queue')] =
                     (IF TagOf(e) = "a"
                      THEN "[!] Warning: Could not create absolute URL for href"
                      ELSE "[!] Warning: Could not create absolute URL for src")
               /\ pc' = "walk"]_vars

\* A call has returned a link and an image that both kept a malformed
\* reference, the image after the link.
C11_Witness ==
    /\ pc = "returned"
    /\ \E i \in Records : \E j \in Records :
          /\ i < j
          /\ IF scraped_data[i].type = "link"
             THEN scraped_data[i].data.url = <<"http://[">>
             ELSE FALSE
          /\ IF scraped_data[j].type = "image"
             THEN scraped_data[j].data.src = <<"http://[">>
             ELSE FALSE

\* ------------------------------------------------------------- container

\* The strings that are direct children of the container and have text.
TopLevelStrings ==
    {t \in NodeIds : /\ IsText(t)
                     /\ ParentOf(t) = 0
                     /\ clean_text(soup.kind[t].text) # <<>>}

\* C14: with a body the walk starts from the body, and nothing is logged
\* about it; without one it starts from the document root and a warning is
\* logged.  Either way nothing raises, the call returns after the walker has
\* been through every primary element and the recovery pass through every
\* string, and the returned records hold the text directly below the
\* container exactly when the container is the document root (the direct
\* text of a body is non-content to the recovery pass).
C14_BodyOrDocumentRoot ==
    pc # "parse" =>
        /\ raised = "None"
        /\ message_queue[1] = "[*] Starting dynamic content extraction..."
        /\ IF soup.body
           THEN message_queue[2] = "[*] Found primary elements to analyze."
           ELSE /\ message_queue[2] = "[!] Warning: Could not find the <body> tag."
                /\ message_queue[3] = "[*] Found primary elements to analyze."
        /\ pc = "returned" =>
             /\ Len(elements_found) =
                   Cardinality({e \in NodeIds : TagOf(e) \in PRIMARY_TAGS})
             /\ Len(all_text_nodes) = Cardinality({t \in NodeIds : IsText(t)})
             /\ pos = Len(all_text_nodes) + 1
             /\ \A t \in TopLevelStrings :
                   (\E i \in Records : IsChunk(i) /\ origin[i] = t) <=> ~soup.body

\* A call on a document without a body has returned a classified record and
\* the text_chunk of a string directly below the document root.
C14_Witness ==
    /\ pc = "returned"
    /\ ~soup.body
    /\ \E i \in Records : ~IsChunk(i)
    /\ \E i \in Records : IsChunk(i) /\ origin[i] \in TopLevelStrings

\* --------------------------------------------------------- classification

\* The record type the table of rules gives a text-bearing tag.
KindOfTag(tag_name) ==
    IF tag_name = "p" THEN "paragraph"
    ELSE IF tag_name = "li" THEN "list_item"
    ELSE IF tag_name = "th" THEN "table_header"
    ELSE IF tag_name = "td" THEN "table_data"
    ELSE "heading_" \o tag_name

\* C15: an unconsumed primary element that is not a link yields at most one
\* record.  A heading, p, li, th or td yields the record of its tag exactly
\* when its cleaned text is not empty, and that text is the data.  An img
\* yields an image record exactly when its data-src, or else its src, is not
\* empty; the source is the data-src when that is not empty, and the alt is
\* the cleaned alt attribute, empty when the attribute is not set.
C15_ClassificationRules ==
    [][\A e \in NodeIds :
         (Examines(e) /\ TagOf(e) # "a") =>
           LET element == soup.kind[e]
               text == clean_text(get_text(e))
               has_data_src == element.data_src # None /\ element.data_src # <<>>
               has_src == element.src # None /\ element.src # <<>>
               source == IF has_data_src THEN element.data_src ELSE element.src
               url == IF UrljoinRaises(base_url, source) THEN source
                      ELSE urljoin(base_url, source)
               alt == IF element.alt = None THEN <<>> ELSE clean_text(element.alt)
               last == scraped_data'[Len(scraped_data')]
           IN  IF TagOf(e) = "img"
               THEN IF has_data_src \/ has_src
                    THEN /\ Len(scraped_data') = Len(scraped_data) + 1
                         /\ SubSeq(scraped_data', 1, Len(scraped_data)) = scraped_data
                         /\ last.type = "image"
                         /\ last.data.src = url
                         /\ last.data.alt = alt
                    ELSE scraped_data' = scraped_data
               ELSE IF text # <<>>
                    THEN /\ Len(scraped_data') = Len(scraped_data) + 1
                         /\ SubSeq(scraped_data', 1, Len(scraped_data)) = scraped_data
                         /\ last.type = KindOfTag(TagOf(e))
                         /\ last.data = text
                    ELSE scraped_data' = scraped_data]_vars

\* A call has returned a heading, and an image that took its source from
\* the src attribute because its data-src is empty, with an empty alt.
C15_Witness ==
    /\ pc = "returned"
    /\ \E i \in Records : scraped_data[i].type = "heading_h2"
    /\ \E i \in Records :
          IF scraped_data[i].type = "image"
          THEN /\ scraped_data[i].data.src = <<"https://ex.com", "/a/", "b.png">>
               /\ scraped_data[i].data.alt = <<>>
          ELSE FALSE

\* ----------------------------------------------------------- recovery pass

\* The recovery pass visits the string t, and nothing raises.
Visits(t) ==
    /\ pc = "recover"
    /\ pos <= Len(all_text_nodes)
    /\ t = all_text_nodes[pos]
    /\ pos' = pos + 1
    /\ raised' = "None"

\* C16: the recovery pass emits a text_chunk for the string it visits exactly
\* when the string is not consumed, its parent's tag is not a non-content
\* container, its cleaned text is not empty, its parent is not consumed and
\* its parent's tag is not a primary tag; the chunk's data is the cleaned
\* text, and no string has two chunks.
C16_RecoveryRule ==
    [][\A t \in NodeIds :
         Visits(t) =>
           LET text == clean_text(soup.kind[t].text)
               parent == ParentOf(t)
               tag == IF parent = 0
                      THEN (IF soup.body THEN "body" ELSE "[document]")
                      ELSE soup.kind[parent].tag
               emits == /\ t \notin processed_elements
                        /\ tag \notin IgnoredParents
                        /\ text # <<>>
                        /\ parent \notin processed_elements
                        /\ tag \notin PRIMARY_TAGS
           IN  /\ IF emits
                  THEN scraped_data' =
                         Append(scraped_data, [type |-> "text_chunk", data |-> text])
                  ELSE scraped_data' = scraped_data
               /\ \A i \in 1..Len(scraped_data') : \A j \in 1..Len(scraped_data') :
                     (/\ scraped_data'[i].type = "text_chunk"
                      /\ scraped_data'[j].type = "text_chunk"
                      /\ origin'[i] = origin'[j]) => i = j]_vars

\* A call has returned a text_chunk, and has left out a string with text
\* whose parent is a primary element that yielded no record.
C16_Witness ==
    /\ pc = "returned"
    /\ \E i \in Records : IsChunk(i) /\ scraped_data[i].data = <<"x", " ", "y">>
    /\ \E t \in ContentStrings :
          /\ TagOf(ParentOf(t)) \in PRIMARY_TAGS
          /\ ParentOf(t) \notin processed_elements
          /\ \A i \in Records : origin[i] # t

\* The element x yielded one of the first n records, or lies below an element
\* that did.
CoveredByRecord(x, n) ==
    \E i \in 1..n : origin[i] = x \/ x \in Descendants(origin[i])

\* C17: during the walker pass and at its end, every element in the
\* ConsumedSet yielded a record or lies below an element that yielded one.
C17_ConsumedElementsHaveRecords ==
    /\ pc = "walk" =>
         \A x \in processed_elements :
             x \in NodeIds /\ (IsElement(x) => CoveredByRecord(x, Len(scraped_data)))
    /\ pc \in {"recover", "returned"} =>
         \A x \in walker_consumed :
             x \in NodeIds /\ (IsElement(x) => CoveredByRecord(x, Len(walker_data)))

\* The walker pass has ended with a consumed element that yielded no record
\* of its own, below an element that did, and with an unconsumed element.
C17_Witness ==
    /\ pc = "recover"
    /\ pos = 1
    /\ \E x \in walker_consumed :
          /\ IsElement(x)
          /\ \A i \in Records : origin[i] # x
    /\ \E y \in NodeIds : IsElement(y) /\ y \notin walker_consumed

\* ------------------------------------------------------ process_single_url

\* C13: process_single_url goes through fetch, parse, extract and save in
\* that order and never back; after a fetch that gave nothing and after a
\* failed parse nothing more happens: no tree is built, the walker is never
\* called, there are no records and no file is written.
C13_PipelineOrder ==
    [][/\ pc' = "parse" => pc \in {"fetch", "parse"}
       /\ pc' \in {"parsed", "parse_failed"} => pc = "parse"
       /\ pc' = "walk" => pc \in {"parsed", "walk"}
       /\ pc' = "recover" => pc \in {"walk", "recover"}
       /\ pc' = "returned" => pc = "recover"
       /\ pc' \in {"saved", "save_failed", "nothing_to_save"} => pc = "returned"
       /\ csv_file' # csv_file => pc = "returned" /\ pc' = "saved"
       /\ pc' = "skipped" =>
            /\ pc = "fetch"
            /\ html_content' \in {None, <<>>}
       /\ html_content' = None => pc' = "skipped"
       /\ pc \notin {"skipped", "parse_failed"}
       /\ pc' \in {"skipped", "parse_failed"} =>
            /\ soup'.kind = <<>>
            /\ calls' = 0
            /\ scraped_data' = <<>>
            /\ csv_file' = NoFile]_vars

\* The page was fetched, the parse has failed, and the walker has not been
\* called.
C13_Witness ==
    /\ pc = "parse_failed"
    /\ html_content = <<"<html>">>
    /\ calls = 0
    /\ ~csv_file.exists

\* ------------------------------------------------------- two calls at once

\* C12: a call that runs interleaved with a call of another thread on
\* another document returns the record sequence it returned when it ran
\* alone, and a switch to the other thread leaves the frame it suspends
\* and the frame it resumes as they were.
C12_CallsShareNoState ==
    [][/\ (pc' = "returned" /\ pc = "recover" /\ calls' >= 2) =>
            scraped_data' = first_result'
       /\ (other' # other) =>
            /\ scraped_data' = other.scraped_data
            /\ processed_elements' = other.processed_elements
            /\ other'.scraped_data = scraped_data
            /\ other'.processed_elements = processed_elements]_vars

\* Both threads are inside a call at the same time, each with a record
\* emitted and a node consumed.
C12_Witness ==
    /\ pc \in {"walk", "recover"}
    /\ other.pc \in {"walk", "recover"}
    /\ calls >= 2
    /\ other.calls >= 2
    /\ scraped_data # <<>>
    /\ other.scraped_data # <<>>
    /\ processed_elements # {}
    /\ other.processed_elements # {}

\* ---------------------------------------------------------------- the window

\* The worker threads that are alive.
Alive == {k \in 1..Len(threads) : threads[k].alive}

\* C18: while a worker thread is alive the Start Scraping and Clear All
\* buttons are disabled, and no more than one worker thread is alive.
C18_ButtonsDisabledWhileRunning ==
    /\ Alive # {} =>
         /\ widget_state.scrape_button = "disabled"
         /\ widget_state.clear_button = "disabled"
    /\ Cardinality(Alive) <= 1

\* The step in which the reset that a finished worker scheduled is run.
ResetRuns ==
    /\ after_queue # <<>>
    /\ after_queue' = Tail(after_queue)

\* C19: when the reset scheduled by the last worker has run, the URL input,
\* the Start Scraping button and the Clear All button are all enabled.
C19_IdleAfterRun ==
    [][(ResetRuns /\ Alive = {} /\ after_queue' = <<>>) =>
         /\ widget_state'.url_input = "normal"
         /\ widget_state'.scrape_button = "normal"
         /\ widget_state'.clear_button = "normal"]_vars

\* What C20 says of the worker thread k in every state.
WorkerInOrder(k) ==
    LET t == threads[k]
    IN  /\ t.i \in 1..(Len(t.urls) + 1)
        /\ t.attempted = SubSeq(t.urls, 1, t.i - 1)
        /\ IF t.alive
           THEN t.finished_messages = 0 /\ t.resets_scheduled = 0
           ELSE /\ t.attempted = t.urls
                /\ t.finished_messages = 1
                /\ t.resets_scheduled = 1

\* C20: a worker attempts its URLs one at a time in the order of the input,
\* whatever the outcome of each; it ends, and when it has ended it has
\* attempted every URL, logged the finished message once and scheduled the
\* reset of the window once.
C20_EveryUrlAttempted ==
    /\ [](\A k \in 1..Len(threads) : WorkerInOrder(k))
    /\ []<>(\A k \in 1..Len(threads) : ~threads[k].alive)

\* A worker has ended after two URLs, given in an order that is not the
\* alphabetical one, and an unhandled exception was logged on the way.
C20_Witness ==
    /\ \E k \in 1..Len(threads) :
          /\ ~threads[k].alive
          /\ threads[k].attempted = << <<"b.example">>, <<"a.example">> >>
    /\ \E m \in 1..Len(message_queue) :
          message_queue[m] = "[!!!] UNHANDLED EXCEPTION"

=============================================================================
